---- MODULE Spec2Model ----
(***************************************************************************)
(* Infinite Wiki: the App component's asynchronous UI-state sequencing.    *)
(* Strings are sequences of one-character strings, so that toLowerCase,    *)
(* trim, startsWith and replace are computed and not assumed.  A nullable  *)
(* value is Null (the empty tuple) or Some(v) (a one-element tuple).       *)
(***************************************************************************)
EXTENDS Integers, Sequences, FiniteSets, TLC

\* ------------------------------------------------------------------ bounds
\* Number of asynchronous operations (effect runs, handleRandom and
\* handleTranslate invocations) a run starts, the one of the mount included.
MaxOps == 3
\* Number of chunks one stream yields before it ends or fails.
MaxChunks == 2

\* ------------------------------------------------------- nullable values
Null == <<>>
Some(v) == <<v>>

\* --------------------------------------------------------------- strings
Upper == <<"A","B","C","D","E","F","G","H","I","J","K","L","M",
           "N","O","P","Q","R","S","T","U","V","W","X","Y","Z">>
Lower == <<"a","b","c","d","e","f","g","h","i","j","k","l","m",
           "n","o","p","q","r","s","t","u","v","w","x","y","z">>

ToLowerChar(c) ==
  IF \E i \in 1..26 : Upper[i] = c
  THEN Lower[CHOOSE i \in 1..26 : Upper[i] = c]
  ELSE c

\* String.prototype.toLowerCase
toLowerCase(s) == [i \in 1..Len(s) |-> ToLowerChar(s[i])]

IsSpace(c) == c \in {" ", "\t", "\n"}

RECURSIVE TrimStart(_)
TrimStart(s) ==
  IF s # <<>> /\ IsSpace(Head(s)) THEN TrimStart(Tail(s)) ELSE s

RECURSIVE TrimEnd(_)
TrimEnd(s) ==
  IF s # <<>> /\ IsSpace(s[Len(s)]) THEN TrimEnd(SubSeq(s, 1, Len(s) - 1)) ELSE s

\* String.prototype.trim
trim(s) == TrimEnd(TrimStart(s))

\* String.prototype.startsWith
startsWith(s, p) == Len(s) >= Len(p) /\ SubSeq(s, 1, Len(p)) = p

\* The 1-based position of the first occurrence of p in s, 0 when there is none.
IndexOf(s, p) ==
  LET hits == {i \in 1..(Len(s) - Len(p) + 1) : SubSeq(s, i, i + Len(p) - 1) = p}
  IN IF hits = {} THEN 0 ELSE CHOOSE i \in hits : \A j \in hits : i <= j

\* String.prototype.replace with a string pattern: the first occurrence only.
replace(s, p, r) ==
  LET i == IndexOf(s, p)
  IN IF i = 0 THEN s
     ELSE SubSeq(s, 1, i - 1) \o r \o SubSeq(s, i + Len(p), Len(s))

\* String.prototype.substring(0, n)
substring0(s, n) == SubSeq(s, 1, IF n < Len(s) THEN n ELSE Len(s))

\* String.prototype.repeat
repeat(c, n) == [i \in 1..n |-> c]

RECURSIVE Flatten(_)
Flatten(ss) == IF ss = <<>> THEN <<>> ELSE Head(ss) \o Flatten(Tail(ss))

\* ------------------------------------------------------ string literals
Hypertext == <<"H","y","p","e","r","t","e","x","t">>
ErrorColon == <<"E","r","r","o","r",":">>
ErrorColonSpace == <<"E","r","r","o","r",":"," ">>
UnknownError == <<"A","n"," ","u","n","k","n","o","w","n"," ",
                  "e","r","r","o","r"," ","o","c","c","u","r","r","e","d">>

Balance == <<"B","a","l","a","n","c","e">>
Harmony == <<"H","a","r","m","o","n","y">>

\* The head of the curated list.
PREDEFINED_WORDS == <<Balance, Harmony>>

\* [...new Set(xs)]: first occurrences, in order.
RECURSIVE Dedup(_)
Dedup(xs) ==
  IF xs = <<>> THEN <<>>
  ELSE LET init == Dedup(SubSeq(xs, 1, Len(xs) - 1))
           last == xs[Len(xs)]
       IN IF \E i \in 1..Len(init) : init[i] = last THEN init ELSE Append(init, last)

UNIQUE_WORDS == Dedup(PREDEFINED_WORDS)

LANGUAGES == <<"Arabic", "Bengali", "French", "German", "Hindi", "Italian",
               "Japanese", "Korean", "Mandarin Chinese", "Portuguese", "Russian", "Spanish">>

\* The box-drawing characters of createFallbackArt, one token per character
\* (U+250C, U+2500, U+2510, U+2502, U+2514, U+2518).
BoxTL == "BOX_DOWN_RIGHT"
BoxH == "BOX_HORIZONTAL"
BoxTR == "BOX_DOWN_LEFT"
BoxV == "BOX_VERTICAL"
BoxBL == "BOX_UP_RIGHT"
BoxBR == "BOX_UP_LEFT"

\* createFallbackArt: a three-line box around the (possibly truncated) topic.
createFallbackArt(topic) ==
  LET displayableTopic == IF Len(topic) > 20
                          THEN substring0(topic, 17) \o <<".", ".", ".">>
                          ELSE topic
      paddedTopic == <<" ">> \o displayableTopic \o <<" ">>
      topBorder == <<BoxTL>> \o repeat(BoxH, Len(paddedTopic)) \o <<BoxTR>>
      middle == <<BoxV>> \o paddedTopic \o <<BoxV>>
      bottomBorder == <<BoxBL>> \o repeat(BoxH, Len(paddedTopic)) \o <<BoxBR>>
  IN [art |-> topBorder \o <<"\n">> \o middle \o <<"\n">> \o bottomBorder]

\* ---------------------------------------------------------- environment
\* What the external collaborators can deliver, as small sets.

\* Text fragments streamDefinition(topic) yields: a fragment of the topic's
\* definition (it names the topic, so that content tells topics apart) or an
\* "Error:" fragment.
ErrNetworkDown == ErrorColonSpace \o <<"N","e","t","w","o","r","k"," ","d","o","w","n">>
DefinitionChunks(topic) == {topic \o <<".">>, ErrNetworkDown}

\* Text fragments streamTranslation(text, language) yields: a fragment that
\* names the language and the source text, or an "Error:" fragment.
ErrInner == ErrorColon \o <<"x"," ">> \o ErrorColonSpace \o <<"y">>
TranslationChunks(text, language) == {<<language>> \o text, ErrNetworkDown, ErrInner}

\* Values a stream's iterator can throw: an Error with a message, or a non-Error.
FailedToFetch == <<"F","a","i","l","e","d"," ","t","o"," ","f","e","t","c","h">>
Thrown == {[isError |-> TRUE, message |-> FailedToFetch],
           [isError |-> FALSE, message |-> <<>>]}

\* What generateAsciiArt(topic) resolves to.
RemoteArt(topic) == [art |-> <<"*">> \o topic]

\* Strings getRandomWord resolves to.
hypertext == <<"h","y","p","e","r","t","e","x","t">>
RandomWords == {hypertext, <<>>}

\* Strings searched for, and words clicked in the content.
SearchQueries == {<<" ">> \o Balance \o <<" ">>, hypertext}
ClickWords == {Balance, hypertext}

\* performance.now() differences, in milliseconds.
ElapsedTimes == {12}

\* Languages the select is changed to.
LanguageChoices == {LANGUAGES[3]}

\* ---------------------------------------------------------------- state
VARIABLES
  currentTopic,       \* useState('Hypertext')
  content,            \* useState('')
  isLoading,          \* useState(true)
  error,              \* useState(null)
  asciiArt,           \* useState(null)
  generationTime,     \* useState(null)
  history,            \* useState([])
  isTranslating,      \* useState(false)
  translationError,   \* useState(null)
  translatedContent,  \* useState(null)
  targetLanguage,     \* useState('Spanish')
  translatedLanguage, \* useState(null)
  fetches,            \* the closures of the effect runs of useEffect[currentTopic]
  randoms,            \* the closures of the handleRandom invocations
  translations,       \* the closures of the handleTranslate invocations
  theme,              \* useState('light')
  storedTheme,        \* localStorage item 'theme'
  prefersDark,        \* window.matchMedia('(prefers-color-scheme: dark)').matches
  darkMode,           \* document.body.classList contains 'dark-mode'
  query,              \* SearchBar: useState('')
  event               \* the step taken last, in runs that record it (InitDirect)

display == <<content, isLoading, error, asciiArt, generationTime>>
translationState == <<isTranslating, translationError, translatedContent, translatedLanguage>>
themeState == <<theme, storedTheme, prefersDark, darkMode>>
vars == <<currentTopic, content, isLoading, error, asciiArt, generationTime, history,
          isTranslating, translationError, translatedContent, targetLanguage,
          translatedLanguage, fetches, randoms, translations, themeState, query, event>>

\* The record of a step: kept only in runs that started recording.
Mark(name) == IF event = "unrecorded" THEN event ELSE name

\* The operations started so far.
Started == Len(fetches) + Len(randoms) + Len(translations)

\* The closure of one effect run: the topic it was started for, its
\* cancellation flag, the local accumulatedContent of fetchContentAndArt
\* (empty again once the function has returned and the local is out of
\* scope), where the for-await loop stands ("open", or left: "ended" with
\* the stream, "failed" into the catch block, "returned" by break), the state
\* of the generateAsciiArt promise ("pending", "resolved", "rejected"), and
\* the fragments the stream has yielded (history information: the stream of
\* the topic on display).  Of a cancelled run only what it can still do is
\* kept: how its loop was left and how its promise settled read "closed" and
\* "settled", and the fragments are dropped.
NewFetch(topic) ==
  [currentTopic |-> topic, isCancelled |-> FALSE, accumulatedContent |-> <<>>,
   chunks |-> <<>>, stream |-> "open", art |-> "pending"]

\* ------------------------------------------------------------ the theme
\* The first theme effect: savedTheme || (prefersDark ? 'dark' : 'light').
InitialTheme(savedTheme, dark) ==
  IF savedTheme # Null /\ savedTheme[1] # ""
  THEN savedTheme[1]
  ELSE IF dark THEN "dark" ELSE "light"

\* What the first theme effect of a mount reads from localStorage: the
\* second effect, which stores the theme of the first render, runs after it.
SavedThemeAfterFirstWrite == Some("light")
SavedTheme == storedTheme

\* The theme effects of a page load, through the render that setTheme
\* causes: the second effect stores 'light', the theme of the first render,
\* and then, run again for the new theme, stores that.
LoadTheme ==
  LET initialTheme == InitialTheme(SavedTheme, prefersDark) IN
  /\ theme' = initialTheme
  /\ darkMode' = (initialTheme = "dark")
  /\ storedTheme' = Some(initialTheme)
  /\ UNCHANGED prefersDark

\* The state the theme effects leave on a first visit (nothing stored)
\* under the OS preference dark, the search box empty.
FirstVisit(dark) ==
  /\ prefersDark = dark
  /\ theme = InitialTheme(Null, dark)
  /\ darkMode = (theme = "dark")
  /\ storedTheme = Some(theme)
  /\ query = <<>>

Init ==
  /\ FirstVisit(FALSE)
  /\ currentTopic = Hypertext
  /\ content = <<>>
  /\ isLoading = TRUE
  /\ error = Null
  /\ asciiArt = Null
  /\ generationTime = Null
  /\ history = <<>>
  /\ isTranslating = FALSE
  /\ translationError = Null
  /\ translatedContent = Null
  /\ targetLanguage = LANGUAGES[12]
  /\ translatedLanguage = Null
  /\ fetches = <<NewFetch(Hypertext)>>
  /\ randoms = <<>>
  /\ translations = <<>>
  /\ event = "unrecorded"

\* ------------------------------------------------ useEffect[currentTopic]
\* The size history is cut back to.
HistoryLimit == 15

\* Mutant of AppendHistory: the last entry compared as spelled, not lower-cased.
AppendHistoryExact(prev, topic) ==
  IF Len(prev) > 0 /\ prev[Len(prev)] = topic
  THEN prev
  ELSE LET newHistory == Append(prev, topic)
       IN IF Len(newHistory) > HistoryLimit
          THEN SubSeq(newHistory, Len(newHistory) - HistoryLimit + 1, Len(newHistory))
          ELSE newHistory

\* The updater passed to setHistory.
AppendHistory(prev, topic) ==
  IF Len(prev) > 0 /\ toLowerCase(prev[Len(prev)]) = toLowerCase(topic)
  THEN prev
  ELSE LET newHistory == Append(prev, topic)
       IN IF Len(newHistory) > HistoryLimit
          THEN SubSeq(newHistory, Len(newHistory) - HistoryLimit + 1, Len(newHistory))
          ELSE newHistory

\* Mutant of NotCancelled: the flag is not consulted.
IgnoreCancelled(f) == TRUE

\* The "if (!isCancelled)" guard of every state write of a fetch operation.
NotCancelled(f) == ~f.isCancelled

\* The effect's cleanup: the flag of the run it belongs to, the one not yet
\* cancelled, is raised.
Cleanup(fs) ==
  [i \in 1..Len(fs) |->
     IF fs[i].isCancelled THEN fs[i]
     ELSE [fs[i] EXCEPT !.isCancelled = TRUE,
                        !.chunks = <<>>,
                        !.stream = IF @ = "open" THEN "open" ELSE "closed",
                        !.art = IF @ = "pending" THEN "pending" ELSE "settled"]]

\* Mutant of InitialContent: the content on display is kept.
LeftoverContent == content

\* setContent('') at the start of fetchContentAndArt.
InitialContent == <<>>

\* setContent(accumulatedContent) after a fragment was added to the local.
ContentAfterChunk(accumulated, chunk) == accumulated \o chunk

\* A topic change marks the translation streams in flight as superseded
\* (history information: the program keeps no such flag).
Supersede(ts) == [i \in 1..Len(ts) |-> [ts[i] EXCEPT !.superseded = TRUE]]

\* setCurrentTopic(t) as React commits it: a value equal to the state changes
\* nothing; otherwise the previous run's cleanup runs and the effect runs
\* again, returning at once for an empty topic.
SetCurrentTopic(t) ==
  IF t = currentTopic
  THEN UNCHANGED <<currentTopic, display, translationState, fetches, translations>>
  ELSE /\ currentTopic' = t
       /\ translations' = Supersede(translations)
       /\ IF t = <<>>
          THEN /\ fetches' = Cleanup(fetches)
               /\ UNCHANGED <<display, translationState>>
          ELSE /\ Started < MaxOps
               /\ fetches' = Append(Cleanup(fetches), NewFetch(t))
               /\ isLoading' = TRUE
               /\ error' = Null
               /\ content' = InitialContent
               /\ asciiArt' = Null
               /\ generationTime' = Null
               /\ translatedContent' = Null
               /\ translationError' = Null
               /\ isTranslating' = FALSE
               /\ translatedLanguage' = Null

\* Mutant of FetchFinally: isLoading is set back only after a success.
FetchFinallyKeepsLoading(f, success, elapsed) ==
  IF NotCancelled(f)
  THEN /\ generationTime' = Some(elapsed)
       /\ isLoading' = IF success THEN FALSE ELSE isLoading
       /\ history' = IF success THEN AppendHistory(history, f.currentTopic) ELSE history
  ELSE UNCHANGED <<generationTime, isLoading, history>>

\* Mutant of FetchFinally: the topic is appended whether or not the stream succeeded.
FetchFinallyAlwaysAppends(f, success, elapsed) ==
  IF NotCancelled(f)
  THEN /\ generationTime' = Some(elapsed)
       /\ isLoading' = FALSE
       /\ history' = AppendHistory(history, f.currentTopic)
  ELSE UNCHANGED <<generationTime, isLoading, history>>

\* The finally block of fetchContentAndArt.
FetchFinally(f, success, elapsed) ==
  IF NotCancelled(f)
  THEN /\ generationTime' = Some(elapsed)
       /\ isLoading' = FALSE
       /\ history' = IF success THEN AppendHistory(history, f.currentTopic) ELSE history
  ELSE UNCHANGED <<generationTime, isLoading, history>>

\* Mutant of FetchCatch: the content accumulated so far stays on display.
FetchCatchKeepsContent(f, errorMessage) ==
  IF NotCancelled(f)
  THEN error' = Some(errorMessage) /\ UNCHANGED content
  ELSE UNCHANGED <<error, content>>

\* The catch block of fetchContentAndArt.
FetchCatch(f, errorMessage) ==
  IF NotCancelled(f)
  THEN error' = Some(errorMessage) /\ content' = <<>>
  ELSE UNCHANGED <<error, content>>

\* The stream of fetch operation id yields a fragment: one turn of the
\* for-await loop, with the catch and finally blocks when it leaves the loop.
DefinitionChunk(id, chunk, elapsed) ==
  LET f == fetches[id] IN
  /\ event' = Mark("async")
  /\ UNCHANGED <<themeState, query>>
  /\ f.stream = "open"
  /\ f.isCancelled \/ Len(f.chunks) < MaxChunks
  /\ UNCHANGED <<currentTopic, asciiArt, translationState, targetLanguage,
                 randoms, translations>>
  /\ IF ~NotCancelled(f)
     THEN \* break; the loop is left with whatever was accumulated
          /\ fetches' = [fetches EXCEPT ![id].stream = "returned",
                                        ![id].accumulatedContent = <<>>]
          /\ FetchFinally(f, f.accumulatedContent # <<>>, elapsed)
          /\ UNCHANGED <<error, content>>
     ELSE IF startsWith(chunk, ErrorColon)
     THEN \* throw new Error(chunk)
          /\ fetches' = [fetches EXCEPT ![id].stream = "failed",
                                        ![id].accumulatedContent = <<>>,
                                        ![id].chunks = Append(@, chunk)]
          /\ FetchCatch(f, chunk)
          /\ FetchFinally(f, FALSE, elapsed)
     ELSE /\ fetches' = [fetches EXCEPT ![id].accumulatedContent = @ \o chunk,
                                        ![id].chunks = Append(@, chunk)]
          /\ content' = IF NotCancelled(f)
                        THEN ContentAfterChunk(f.accumulatedContent, chunk)
                        ELSE content
          /\ UNCHANGED <<error, isLoading, generationTime, history>>

\* The stream of fetch operation id ends.
DefinitionEnd(id, elapsed) ==
  LET f == fetches[id]
      success == f.accumulatedContent # <<>>
  IN
  /\ event' = Mark("async")
  /\ UNCHANGED <<themeState, query>>
  /\ f.stream = "open"
  /\ fetches' = [fetches EXCEPT ![id].stream = IF NotCancelled(f) THEN "ended" ELSE "closed",
                                ![id].accumulatedContent = <<>>]
  /\ FetchFinally(f, success, elapsed)
  /\ UNCHANGED <<currentTopic, content, error, asciiArt, translationState,
                 targetLanguage, randoms, translations>>

\* The stream of fetch operation id throws e.
DefinitionThrow(id, e, elapsed) ==
  LET f == fetches[id] IN
  /\ event' = Mark("async")
  /\ UNCHANGED <<themeState, query>>
  /\ f.stream = "open"
  /\ fetches' = [fetches EXCEPT ![id].stream = IF NotCancelled(f) THEN "failed" ELSE "closed",
                                ![id].accumulatedContent = <<>>]
  /\ FetchCatch(f, IF e.isError THEN e.message ELSE UnknownError)
  /\ FetchFinally(f, FALSE, elapsed)
  /\ UNCHANGED <<currentTopic, asciiArt, translationState, targetLanguage,
                 randoms, translations>>

\* generateAsciiArt of fetch operation id resolves.
ArtResolves(id) ==
  LET f == fetches[id] IN
  /\ event' = Mark("async")
  /\ UNCHANGED <<themeState, query>>
  /\ f.art = "pending"
  /\ fetches' = [fetches EXCEPT ![id].art = IF NotCancelled(f) THEN "resolved" ELSE "settled"]
  /\ asciiArt' = IF NotCancelled(f) THEN Some(RemoteArt(f.currentTopic)) ELSE asciiArt
  /\ UNCHANGED <<currentTopic, content, isLoading, error, generationTime, history,
                 translationState, targetLanguage, randoms, translations>>

\* Mutant of ArtRejects: the failure is also shown as the page's error.
ArtRejectsShowsError(id) ==
  LET f == fetches[id] IN
  /\ event' = Mark("async")
  /\ UNCHANGED <<themeState, query>>
  /\ f.art = "pending"
  /\ fetches' = [fetches EXCEPT ![id].art = IF NotCancelled(f) THEN "rejected" ELSE "settled"]
  /\ asciiArt' = IF NotCancelled(f) THEN Some(createFallbackArt(f.currentTopic)) ELSE asciiArt
  /\ error' = IF NotCancelled(f) THEN Some(FailedToFetch) ELSE error
  /\ UNCHANGED <<currentTopic, content, isLoading, generationTime, history,
                 translationState, targetLanguage, randoms, translations>>

\* generateAsciiArt of fetch operation id rejects.
ArtRejects(id) ==
  LET f == fetches[id] IN
  /\ event' = Mark("async")
  /\ UNCHANGED <<themeState, query>>
  /\ f.art = "pending"
  /\ fetches' = [fetches EXCEPT ![id].art = IF NotCancelled(f) THEN "rejected" ELSE "settled"]
  /\ asciiArt' = IF NotCancelled(f) THEN Some(createFallbackArt(f.currentTopic)) ELSE asciiArt
  /\ UNCHANGED <<currentTopic, content, isLoading, error, generationTime, history,
                 translationState, targetLanguage, randoms, translations>>

\* ------------------------------------------------------------- handlers
\* handleWordClick(word); history buttons call it too.
HandleWordClick(word) ==
  LET newTopic == trim(word) IN
  /\ event' = Mark("handleWordClick")
  /\ UNCHANGED <<themeState, query>>
  /\ IF newTopic # <<>> /\ toLowerCase(newTopic) # toLowerCase(currentTopic)
     THEN SetCurrentTopic(newTopic)
     ELSE UNCHANGED <<currentTopic, display, translationState, fetches, translations>>
  /\ UNCHANGED <<history, targetLanguage, randoms>>

\* Mutant of HandleSearch: the topics are compared as spelled.
HandleSearchExactCase(topic) ==
  LET newTopic == trim(topic) IN
  /\ event' = Mark("handleSearch")
  /\ UNCHANGED themeState
  /\ IF newTopic # <<>> /\ newTopic # currentTopic
     THEN SetCurrentTopic(newTopic)
     ELSE UNCHANGED <<currentTopic, display, translationState, fetches, translations>>
  /\ UNCHANGED <<history, targetLanguage, randoms>>

\* handleSearch(topic)
HandleSearch(topic) ==
  LET newTopic == trim(topic) IN
  /\ event' = Mark("handleSearch")
  /\ UNCHANGED themeState
  /\ IF newTopic # <<>> /\ toLowerCase(newTopic) # toLowerCase(currentTopic)
     THEN SetCurrentTopic(newTopic)
     ELSE UNCHANGED <<currentTopic, display, translationState, fetches, translations>>
  /\ UNCHANGED <<history, targetLanguage, randoms>>

\* Mutant of HandleSubmit: isLoading is not consulted.
HandleSubmitWhileLoading(text) ==
  IF trim(text) # <<>>
  THEN /\ HandleSearch(trim(text))
       /\ query' = <<>>
  ELSE /\ event' = Mark("handleSubmit")
       /\ query' = text
       /\ UNCHANGED <<currentTopic, display, translationState, fetches, translations,
                      history, targetLanguage, randoms, themeState>>

\* SearchBar.handleSubmit with the input holding text: onSearch is
\* handleSearch, and setQuery('') clears the input after a search.
HandleSubmit(text) ==
  IF trim(text) # <<>> /\ ~isLoading
  THEN /\ HandleSearch(trim(text))
       /\ query' = <<>>
  ELSE /\ event' = Mark("handleSubmit")
       /\ query' = text
       /\ UNCHANGED <<currentTopic, display, translationState, fetches, translations,
                      history, targetLanguage, randoms, themeState>>

\* handleRandom up to its await: the closure keeps the topic of the render
\* the handler was created in.
HandleRandom ==
  /\ event' = Mark("handleRandom")
  /\ UNCHANGED <<themeState, query>>
  /\ Started < MaxOps
  /\ isLoading' = TRUE
  /\ error' = Null
  /\ content' = <<>>
  /\ asciiArt' = Null
  /\ randoms' = Append(randoms, [currentTopic |-> currentTopic, nextTopic |-> <<>>,
                                 state |-> "pending"])
  /\ UNCHANGED <<currentTopic, generationTime, history, translationState,
                 targetLanguage, fetches, translations>>

\* An invocation of handleRandom that has returned; its local nextTopic is
\* kept in runs that record their steps.
SettledRandom(nextTopic) ==
  [currentTopic |-> <<>>, state |-> "settled",
   nextTopic |-> IF event = "unrecorded" THEN <<>> ELSE nextTopic]

\* Math.floor(Math.random() * UNIQUE_WORDS.length)
RandomIndices == 0..(Len(UNIQUE_WORDS) - 1)

\* The finally block of handleRandom: the topic it sets.
TopicToSet(nextTopic, capturedTopic, fallbackIndex) ==
  IF toLowerCase(nextTopic) = toLowerCase(capturedTopic)
  THEN UNIQUE_WORDS[fallbackIndex + 1]
  ELSE nextTopic

\* getRandomWord of invocation rid resolves to randomWord.
RandomResolves(rid, randomWord, fallbackIndex) ==
  /\ event' = Mark("async")
  /\ UNCHANGED <<themeState, query>>
  /\ randoms[rid].state = "pending"
  /\ randoms' = [randoms EXCEPT ![rid] = SettledRandom(randomWord)]
  /\ SetCurrentTopic(TopicToSet(randomWord, randoms[rid].currentTopic, fallbackIndex))
  /\ UNCHANGED <<history, targetLanguage>>

\* getRandomWord of invocation rid rejects: a draw from the curated list.
RandomRejects(rid, randomIndex, fallbackIndex) ==
  /\ event' = Mark("async")
  /\ UNCHANGED <<themeState, query>>
  /\ randoms[rid].state = "pending"
  /\ randoms' = [randoms EXCEPT ![rid] = SettledRandom(UNIQUE_WORDS[randomIndex + 1])]
  /\ SetCurrentTopic(TopicToSet(UNIQUE_WORDS[randomIndex + 1],
                                randoms[rid].currentTopic, fallbackIndex))
  /\ UNCHANGED <<history, targetLanguage>>

\* handleLanguageChange(language)
HandleLanguageChange(language) ==
  /\ event' = Mark("handleLanguageChange")
  /\ UNCHANGED <<themeState, query>>
  /\ targetLanguage' = language
  /\ UNCHANGED <<currentTopic, display, history, translationState, fetches,
                 randoms, translations>>

\* The closure of one handleTranslate invocation past its guard.
NewTranslation ==
  [content |-> content, targetLanguage |-> targetLanguage,
   accumulatedTranslation |-> <<>>, chunks |-> <<>>, stream |-> "open",
   superseded |-> FALSE]

\* Mutant of TranslateGuard: no guard.
NoTranslateGuard == TRUE

\* The "if (!content) return" guard of handleTranslate.
TranslateGuard == content # <<>>

\* handleTranslate up to the first fragment of its stream.
HandleTranslate ==
  /\ event' = Mark("handleTranslate")
  /\ UNCHANGED <<themeState, query>>
  /\ IF TranslateGuard
     THEN /\ Started < MaxOps
          /\ isTranslating' = TRUE
          /\ translatedContent' = Some(<<>>)
          /\ translationError' = Null
          /\ translations' = Append(Supersede(translations), NewTranslation)
          /\ UNCHANGED translatedLanguage
     ELSE UNCHANGED <<translationState, translations>>
  /\ UNCHANGED <<currentTopic, display, history, targetLanguage, fetches, randoms>>

\* errorMessage.replace('Error: ', '')
CleanMessage(errorMessage) == replace(errorMessage, ErrorColonSpace, <<>>)

\* The catch and finally blocks of handleTranslate after a failure.
TranslateFailure(errorMessage) ==
  /\ translationError' = Some(CleanMessage(errorMessage))
  /\ translatedContent' = Null
  /\ isTranslating' = FALSE
  /\ UNCHANGED translatedLanguage

\* The stream of translation tid yields a fragment.
TranslationChunk(tid, chunk) ==
  LET t == translations[tid] IN
  /\ event' = Mark("async")
  /\ UNCHANGED <<themeState, query>>
  /\ t.stream = "open"
  /\ Len(t.chunks) < MaxChunks
  /\ IF startsWith(chunk, ErrorColon)
     THEN /\ translations' = [translations EXCEPT ![tid].stream = "failed",
                                                  ![tid].chunks = Append(@, chunk)]
          /\ TranslateFailure(chunk)
     ELSE /\ translations' = [translations EXCEPT
                                ![tid].accumulatedTranslation = @ \o chunk,
                                ![tid].chunks = Append(@, chunk)]
          /\ translatedContent' = Some(t.accumulatedTranslation \o chunk)
          /\ UNCHANGED <<isTranslating, translationError, translatedLanguage>>
  /\ UNCHANGED <<currentTopic, display, history, targetLanguage, fetches, randoms>>

\* The stream of translation tid ends.
TranslationEnd(tid) ==
  LET t == translations[tid] IN
  /\ event' = Mark("async")
  /\ UNCHANGED <<themeState, query>>
  /\ t.stream = "open"
  /\ translations' = [translations EXCEPT ![tid].stream = "ended"]
  /\ isTranslating' = FALSE
  /\ translatedLanguage' = IF t.accumulatedTranslation # <<>>
                           THEN Some(t.targetLanguage)
                           ELSE translatedLanguage
  /\ UNCHANGED <<currentTopic, display, history, targetLanguage, fetches, randoms,
                 translationError, translatedContent>>

\* The stream of translation tid throws e.
TranslationThrow(tid, e) ==
  LET t == translations[tid] IN
  /\ event' = Mark("async")
  /\ UNCHANGED <<themeState, query>>
  /\ t.stream = "open"
  /\ translations' = [translations EXCEPT ![tid].stream = "failed"]
  /\ TranslateFailure(IF e.isError THEN e.message ELSE UnknownError)
  /\ UNCHANGED <<currentTopic, display, history, targetLanguage, fetches, randoms>>

\* ------------------------------------------------------ the rendered UI
\* ContentDisplay is rendered, so its words can be clicked.
ContentShown == Len(content) > 0 /\ error = Null

\* The Translate button: disabled={!canTranslate || isTranslating}.
TranslateEnabled == ~isLoading /\ Len(content) > 0 /\ ~isTranslating

\* The search box: a text typed into the input, which is disabled={isLoading},
\* and Enter pressed.
SearchFor(text) == ~isLoading /\ HandleSubmit(text)

WordClick(word) == ContentShown /\ HandleWordClick(word)

\* A button of history.slice(0, -1).
HistoryClick(i) == Len(history) > 1 /\ i < Len(history) /\ HandleWordClick(history[i])

\* The Random button: disabled={isLoading}.
RandomClick == ~isLoading /\ HandleRandom

TranslateClick == TranslateEnabled /\ HandleTranslate

\* The language select: disabled={isTranslating}.
LanguageSelect(language) == ~isTranslating /\ HandleLanguageChange(language)

\* The steps of the operations in flight.
FetchSteps ==
  \/ \E id \in 1..Len(fetches), elapsed \in ElapsedTimes :
       \/ \E chunk \in DefinitionChunks(fetches[id].currentTopic) :
            DefinitionChunk(id, chunk, elapsed)
       \/ DefinitionEnd(id, elapsed)
       \/ \E e \in Thrown : DefinitionThrow(id, e, elapsed)
  \/ \E id \in 1..Len(fetches) : ArtResolves(id) \/ ArtRejects(id)

RandomSteps ==
  \E rid \in 1..Len(randoms), fallbackIndex \in RandomIndices :
    \/ \E randomWord \in RandomWords : RandomResolves(rid, randomWord, fallbackIndex)
    \/ \E randomIndex \in RandomIndices : RandomRejects(rid, randomIndex, fallbackIndex)

TranslationSteps ==
  \E tid \in 1..Len(translations) :
    \/ \E chunk \in TranslationChunks(translations[tid].content,
                                      translations[tid].targetLanguage) :
         TranslationChunk(tid, chunk)
    \/ TranslationEnd(tid)
    \/ \E e \in Thrown : TranslationThrow(tid, e)

Async == FetchSteps \/ RandomSteps \/ TranslationSteps

\* The program driven through its rendered controls, the language select
\* left at its initial value.
Next ==
  \/ \E text \in SearchQueries : SearchFor(text)
  \/ \E word \in ClickWords : WordClick(word)
  \/ \E i \in 1..Len(history) : HistoryClick(i)
  \/ RandomClick
  \/ TranslateClick
  \/ Async

Spec == Init /\ [][Next]_vars

\* The same with the language select in use.
NextLanguages ==
  \/ Next
  \/ \E language \in LanguageChoices : LanguageSelect(language)

SpecLanguages == Init /\ [][NextLanguages]_vars

\* handleTranslate called while nothing is displayed, where the Translate
\* button is disabled: a call the rendered UI never makes, a test of App does.
TranslateCall == content = <<>> /\ HandleTranslate

\* The program with every step recorded in event, the search box left
\* alone, and handleTranslate also called directly.
InitDirect ==
  /\ FirstVisit(FALSE)
  /\ currentTopic = Hypertext
  /\ content = <<>>
  /\ isLoading = TRUE
  /\ error = Null
  /\ asciiArt = Null
  /\ generationTime = Null
  /\ history = <<>>
  /\ isTranslating = FALSE
  /\ translationError = Null
  /\ translatedContent = Null
  /\ targetLanguage = LANGUAGES[12]
  /\ translatedLanguage = Null
  /\ fetches = <<NewFetch(Hypertext)>>
  /\ randoms = <<>>
  /\ translations = <<>>
  /\ event = "mount"

NextDirect ==
  \/ \E word \in ClickWords : WordClick(word)
  \/ \E i \in 1..Len(history) : HistoryClick(i)
  \/ RandomClick
  \/ TranslateClick
  \/ TranslateCall
  \/ Async

SpecDirect == InitDirect /\ [][NextDirect]_vars

\* The program late in a session: the topic has just changed back to
\* 'Hypertext' after HistorySeedLength topics were completed in turn, so
\* that history is near its limit.
HistorySeedLength == 14

RECURSIVE SeedHistory(_)
SeedHistory(n) ==
  IF n = 0 THEN <<>>
  ELSE AppendHistory(SeedHistory(n - 1), IF n % 2 = 1 THEN Hypertext ELSE Balance)

InitHist ==
  /\ FirstVisit(FALSE)
  /\ currentTopic = Hypertext
  /\ content = <<>>
  /\ isLoading = TRUE
  /\ error = Null
  /\ asciiArt = Null
  /\ generationTime = Null
  /\ history = SeedHistory(HistorySeedLength)
  /\ isTranslating = FALSE
  /\ translationError = Null
  /\ translatedContent = Null
  /\ targetLanguage = LANGUAGES[12]
  /\ translatedLanguage = Null
  /\ fetches = <<NewFetch(Hypertext)>>
  /\ randoms = <<>>
  /\ translations = <<>>
  /\ event = "unrecorded"

SpecHist == InitHist /\ [][Next]_vars

\* handleSearch and handleWordClick called as functions, whatever the
\* rendered controls allow: with a blank string, an empty one, or the
\* initial topic in another case.
CallArguments == {<<>>, <<" ">>, hypertext}
SearchCall(topic) == HandleSearch(topic) /\ UNCHANGED query
WordCall(word) == HandleWordClick(word)

NextCalls ==
  \/ NextDirect
  \/ \E topic \in CallArguments : SearchCall(topic)
  \/ \E word \in CallArguments : WordCall(word)

SpecCalls == InitDirect /\ [][NextCalls]_vars

\* The search box in steps: a text is typed into the input (onChange, the
\* input disabled={isLoading}), and the form is submitted with what the
\* input holds, whenever; every step recorded in event.
TypedTexts == {<<" ">>, <<" ">> \o Balance \o <<" ">>, hypertext}

SetQuery(text) ==
  /\ ~isLoading
  /\ query' = text
  /\ event' = Mark("setQuery")
  /\ UNCHANGED <<currentTopic, display, history, translationState, targetLanguage,
                 fetches, randoms, translations, themeState>>

SubmitForm == HandleSubmit(query)

NextSearch ==
  \/ \E text \in TypedTexts : SetQuery(text)
  \/ SubmitForm
  \/ \E word \in ClickWords : WordClick(word)
  \/ RandomClick
  \/ FetchSteps
  \/ RandomSteps

SpecSearch == InitDirect /\ [][NextSearch]_vars

\* The program idle late in a session: 'Balance' on display after
\* 'Hypertext', nothing in flight and the closures of the finished
\* operations gone; every step recorded in event.
InitIdle ==
  /\ FirstVisit(FALSE)
  /\ currentTopic = Balance
  /\ content = Balance \o <<".">>
  /\ isLoading = FALSE
  /\ error = Null
  /\ asciiArt = Some(RemoteArt(Balance))
  /\ generationTime \in {Some(elapsed) : elapsed \in ElapsedTimes}
  /\ history = AppendHistory(AppendHistory(<<>>, Hypertext), Balance)
  /\ isTranslating = FALSE
  /\ translationError = Null
  /\ translatedContent = Null
  /\ targetLanguage = LANGUAGES[12]
  /\ translatedLanguage = Null
  /\ fetches = <<>>
  /\ randoms = <<>>
  /\ translations = <<>>
  /\ event = "idle"

SpecIdle == InitIdle /\ [][NextDirect]_vars

\* ---------------------------------------------------- theme and reload
\* toggleTheme, with the second theme effect, which runs for the new theme.
ToggleTheme ==
  /\ theme' = (IF theme = "light" THEN "dark" ELSE "light")
  /\ darkMode' = (theme' = "dark")
  /\ storedTheme' = Some(theme')
  /\ event' = Mark("toggleTheme")
  /\ UNCHANGED <<currentTopic, display, history, translationState, targetLanguage,
                 fetches, randoms, translations, prefersDark, query>>

\* The page is loaded again: every useState starts over, the effect of the
\* mount starts the fetch of 'Hypertext', and the theme effects run.  What
\* the page had in flight is gone with it; localStorage stays.
Reload ==
  /\ currentTopic' = Hypertext
  /\ content' = <<>>
  /\ isLoading' = TRUE
  /\ error' = Null
  /\ asciiArt' = Null
  /\ generationTime' = Null
  /\ history' = <<>>
  /\ isTranslating' = FALSE
  /\ translationError' = Null
  /\ translatedContent' = Null
  /\ targetLanguage' = LANGUAGES[12]
  /\ translatedLanguage' = Null
  /\ fetches' = <<NewFetch(Hypertext)>>
  /\ randoms' = <<>>
  /\ translations' = <<>>
  /\ query' = <<>>
  /\ LoadTheme
  /\ event' = Mark("reload")

\* The user clears the site's data.
ClearStorage ==
  /\ storedTheme' = Null
  /\ event' = Mark("clearStorage")
  /\ UNCHANGED <<currentTopic, display, history, translationState, targetLanguage,
                 fetches, randoms, translations, theme, prefersDark, darkMode, query>>

\* The OS preference changes; the page does not listen to it.
SetPrefersDark(dark) ==
  /\ prefersDark' = dark
  /\ event' = Mark("prefers-color-scheme")
  /\ UNCHANGED <<currentTopic, display, history, translationState, targetLanguage,
                 fetches, randoms, translations, theme, storedTheme, darkMode, query>>

\* The program on a first visit under either OS preference, with the theme
\* toggle, reloads and searches, every step recorded in event.
InitTheme ==
  /\ \E dark \in BOOLEAN : FirstVisit(dark)
  /\ currentTopic = Hypertext
  /\ content = <<>>
  /\ isLoading = TRUE
  /\ error = Null
  /\ asciiArt = Null
  /\ generationTime = Null
  /\ history = <<>>
  /\ isTranslating = FALSE
  /\ translationError = Null
  /\ translatedContent = Null
  /\ targetLanguage = LANGUAGES[12]
  /\ translatedLanguage = Null
  /\ fetches = <<NewFetch(Hypertext)>>
  /\ randoms = <<>>
  /\ translations = <<>>
  /\ event = "mount"

NextTheme ==
  \/ ToggleTheme
  \/ Reload
  \/ ClearStorage
  \/ \E dark \in BOOLEAN : SetPrefersDark(dark)
  \/ \E text \in SearchQueries : SearchFor(text)
  \/ FetchSteps

SpecTheme == InitTheme /\ [][NextTheme]_vars

\* The program after a topic change to one of a range of topics: short and
\* long ones, and a string of two lines (getRandomWord's result becomes the
\* topic as it is, untrimmed and unchecked).
TwentyChars == <<"a","b","c","d","e","f","g","h","i","j",
                 "k","l","m","n","o","p","q","r","s","t">>
TwentyOneChars == TwentyChars \o <<"u">>
Supercalifragilisticexpialidocious ==
  <<"S","u","p","e","r","c","a","l","i","f","r","a","g","i","l","i","s",
    "t","i","c","e","x","p","i","a","l","i","d","o","c","i","o","u","s">>
TwoLines == <<"a","\n","b">>
ArtTopics == {Hypertext, TwentyChars, TwentyOneChars,
              Supercalifragilisticexpialidocious, TwoLines}

InitArt ==
  /\ FirstVisit(FALSE)
  /\ currentTopic \in ArtTopics
  /\ content = <<>>
  /\ isLoading = TRUE
  /\ error = Null
  /\ asciiArt = Null
  /\ generationTime = Null
  /\ history = <<>>
  /\ isTranslating = FALSE
  /\ translationError = Null
  /\ translatedContent = Null
  /\ targetLanguage = LANGUAGES[12]
  /\ translatedLanguage = Null
  /\ fetches = <<NewFetch(currentTopic)>>
  /\ randoms = <<>>
  /\ translations = <<>>
  /\ event = "unrecorded"

SpecArt == InitArt /\ [][Next]_vars

\* =============================================================== claims
Last(xs) == xs[Len(xs)]

\* The stream of run id yields a fragment in this step, the run not cancelled.
YieldsTo(id) ==
  /\ ~fetches[id].isCancelled
  /\ Len(fetches'[id].chunks) = Len(fetches[id].chunks) + 1

\* The topic has changed since run id was started.
Stale(id) == id < Len(fetches) \/ fetches[id].currentTopic # currentTopic

\* C1: a topic change that starts a stream empties content in the same step,
\* and every fragment written afterwards leaves content equal to the
\* fragments of the writing run's own stream, never added to older content.
C1_ResetBeforeChunks ==
  [][ /\ (currentTopic' # currentTopic /\ currentTopic' # <<>>) => content' = <<>>
      /\ \A id \in 1..Len(fetches) :
           (YieldsTo(id) /\ fetches'[id].stream = "open")
             => content' = Flatten(fetches'[id].chunks) ]_vars

\* C1 witness: a run cancelled with content accumulated, and the run of the
\* next topic has written a fragment of its own.
C1_Witness ==
  /\ Len(fetches) >= 2
  /\ fetches[1].isCancelled /\ fetches[1].accumulatedContent # <<>>
  /\ ~fetches[2].isCancelled /\ fetches[2].chunks # <<>>
  /\ content = Flatten(fetches[2].chunks)

\* C2: an "Error:" fragment of the stream on display stops the accumulation,
\* empties content, makes error that fragment and leaves history alone.
C2_ErrorChunk ==
  [][ \A id \in 1..Len(fetches) :
        (YieldsTo(id) /\ startsWith(Last(fetches'[id].chunks), ErrorColon))
          => /\ fetches'[id].stream = "failed"
             /\ content' = <<>>
             /\ error' = Some(Last(fetches'[id].chunks))
             /\ history' = history ]_vars

\* C2 witness: the "Error:" fragment came after a fragment had been accumulated.
C2_Witness ==
  \E id \in 1..Len(fetches) :
    /\ fetches[id].stream = "failed"
    /\ Len(fetches[id].chunks) = 2
    /\ error = Some(ErrNetworkDown)
    /\ content = <<>>

\* C3: history has at most 15 entries and no two adjacent entries are equal
\* when compared case-insensitively.
C3_HistoryBounded ==
  /\ Len(history) <= HistoryLimit
  /\ \A i \in 1..(Len(history) - 1) :
       toLowerCase(history[i]) # toLowerCase(history[i + 1])

\* C3 witness: history is full and its oldest entry has been cut off (the
\* seed starts with 'Hypertext').
C3_Witness ==
  /\ Len(history) = HistoryLimit
  /\ history[1] = Balance

\* C4: a step of a run whose topic has been replaced changes none of content,
\* error, isLoading, generationTime, history and asciiArt.
C4_StaleWritesNothing ==
  [][ \A id \in 1..Len(fetches) :
        (Stale(id) /\ fetches'[id] # fetches[id])
          => UNCHANGED <<content, error, isLoading, generationTime, history, asciiArt>>
    ]_vars

\* C4 witness: a stale run was handed a fragment and left its loop, while the
\* run of the new topic is loading.
C4_Witness ==
  /\ Len(fetches) >= 2
  /\ fetches[1].stream = "returned"
  /\ fetches[2].stream = "open"
  /\ isLoading

\* C5: a translation stream that a topic change or a later translate action
\* has superseded changes none of the translation state.
C5_SupersededTranslationSilent ==
  [][ \A tid \in 1..Len(translations) :
        (translations[tid].superseded /\ translations'[tid] # translations[tid])
          => UNCHANGED translationState ]_vars

\* C6: the topic a handleRandom invocation sets differs, case-insensitively,
\* from the topic it replaces.
C6_RandomAvoidsRepeat ==
  [][ \A rid \in 1..Len(randoms) :
        (randoms[rid].state = "pending" /\ randoms'[rid].state = "settled")
          => toLowerCase(currentTopic') # toLowerCase(currentTopic) ]_vars

\* C7: handleTranslate called while content is empty starts no stream and
\* leaves the translation state as it was.
C7_TranslateEmptyNoOp ==
  [][ (event' = "handleTranslate" /\ content = <<>>)
        => UNCHANGED <<translationState, translations>> ]_vars

\* C7 witness: handleTranslate was the last step and content is empty.
C7_Witness == event = "handleTranslate" /\ content = <<>>

\* s without a leading "Error: ".
StripLeadingPrefix(s) ==
  IF startsWith(s, ErrorColonSpace)
  THEN SubSeq(s, Len(ErrorColonSpace) + 1, Len(s))
  ELSE s

\* C8: an "Error:" fragment of a translation stream makes translationError
\* the fragment without its leading "Error: ", translatedContent null and
\* isTranslating false, and leaves translatedLanguage alone.
C8_TranslationErrorCleaned ==
  [][ \A tid \in 1..Len(translations) :
        ( /\ Len(translations'[tid].chunks) = Len(translations[tid].chunks) + 1
          /\ startsWith(Last(translations'[tid].chunks), ErrorColon) )
          => /\ translationError' = Some(StripLeadingPrefix(Last(translations'[tid].chunks)))
             /\ translatedContent' = Null
             /\ isTranslating' = FALSE
             /\ translatedLanguage' = translatedLanguage ]_vars

\* C9: history changes only when the stream of the run on display ends with
\* content accumulated; then, and whenever such a stream ends, the last entry
\* of history equals the topic on display case-insensitively.  A stream that
\* fails, ends empty or belongs to a cancelled run leaves history alone.
C9_HistoryOnSuccessOnly ==
  [][ /\ \A id \in 1..Len(fetches) :
           ( /\ ~fetches[id].isCancelled
             /\ fetches[id].stream = "open" /\ fetches'[id].stream = "ended"
             /\ fetches[id].accumulatedContent # <<>> )
             => /\ history' # <<>>
                /\ toLowerCase(Last(history')) = toLowerCase(currentTopic')
                /\ fetches[id].currentTopic = currentTopic'
      /\ history' # history
           => \E id \in 1..Len(fetches) :
                /\ ~fetches[id].isCancelled
                /\ fetches[id].stream = "open" /\ fetches'[id].stream = "ended"
                /\ fetches[id].accumulatedContent # <<>>
                /\ history' = Append(history, fetches[id].currentTopic)
                   \/ history' = Tail(Append(history, fetches[id].currentTopic)) ]_vars

\* C9 witness: a topic was completed whose spelling differs only in case
\* from the last entry of history, which was therefore not appended to.
C9_Witness ==
  /\ ~isLoading /\ error = Null /\ content # <<>>
  /\ history # <<>>
  /\ Last(history) # currentTopic
  /\ toLowerCase(Last(history)) = toLowerCase(currentTopic)

\* C10: when generateAsciiArt rejects for the run on display, asciiArt
\* becomes the fallback box of the topic on display and nothing else changes:
\* not error, content, isLoading, generationTime, history or the translation
\* state, nor the run's stream.
C10_ArtFailureOnlyFallback ==
  [][ \A id \in 1..Len(fetches) :
        (~fetches[id].isCancelled /\ fetches'[id].art = "rejected"
           /\ fetches[id].art = "pending")
          => /\ asciiArt' = Some(createFallbackArt(currentTopic))
             /\ fetches' = [fetches EXCEPT ![id].art = "rejected"]
             /\ UNCHANGED <<currentTopic, error, content, isLoading, generationTime,
                            history, translationState, translations>> ]_vars

\* C10 witness: the fallback box is on display while the stream of the same
\* topic is still being accumulated.
C10_Witness ==
  \E id \in 1..Len(fetches) :
    /\ fetches[id].art = "rejected" /\ fetches[id].stream = "open"
    /\ fetches[id].chunks # <<>>
    /\ asciiArt = Some(createFallbackArt(currentTopic))
    /\ content = Flatten(fetches[id].chunks)

\* The lines of a text: String.prototype.split('\n').
RECURSIVE SplitLines(_)
SplitLines(s) ==
  LET i == IndexOf(s, <<"\n">>)
  IN IF i = 0 THEN <<s>>
     ELSE <<SubSeq(s, 1, i - 1)>> \o SplitLines(SubSeq(s, i + 1, Len(s)))

\* The label the claim gives a topic: the topic itself up to 17 characters
\* plus the length of the ellipsis, else its first 17 characters and "...".
ClaimedLabel(topic) ==
  IF Len(topic) <= 17 + 3 THEN topic
  ELSE SubSeq(topic, 1, 17) \o <<".", ".", ".">>

\* The shape the claim gives the fallback box of a topic.
ClaimedShape(art, topic) ==
  LET lines == SplitLines(art)
  IN /\ Len(lines) = 3
     /\ Len(lines[1]) = Len(lines[2]) /\ Len(lines[2]) = Len(lines[3])
     /\ lines[2] = <<BoxV, " ">> \o ClaimedLabel(topic) \o <<" ", BoxV>>
     /\ Len(ClaimedLabel(topic)) <= 17 + 3

\* generateAsciiArt has just rejected for the run on display.
FallbackJustSet ==
  \E id \in 1..Len(fetches) :
    fetches[id].art = "pending" /\ fetches'[id].art = "rejected"

\* C11: the fallback box of every topic is three lines of equal length, the
\* middle one holding the topic's label between the vertical bars: the topic
\* itself when short, else its first 17 characters followed by "...", and
\* never longer than 17 characters plus the ellipsis.
C11_FallbackArtShape ==
  [][ FallbackJustSet => ClaimedShape(asciiArt'[1].art, currentTopic) ]_vars

\* C12: a reload keeps the theme: when a value is stored, the theme after
\* the load effects is the theme in force before the reload, whatever the OS
\* preference; with nothing stored it is the OS preference.
C12_ThemeSurvivesReload ==
  [][ event' = "reload" =>
        IF storedTheme # Null
        THEN theme' = theme
        ELSE theme' = (IF prefersDark THEN "dark" ELSE "light") ]_vars

\* C12 witness: the dark theme came back from a reload against an OS
\* preference for light.
C12_Witness == event = "reload" /\ theme = "dark" /\ ~prefersDark

\* C13: the topic handleRandom sets: when the candidate (the service's
\* word, or the draw from the curated list on failure) equals the topic on
\* display case-insensitively, a member of the curated list; otherwise the
\* candidate itself.
C13_RandomTopicDetermined ==
  [][ \A rid \in 1..Len(randoms) :
        (randoms[rid].state = "pending" /\ randoms'[rid].state = "settled")
          => LET candidate == randoms'[rid].nextTopic
             IN IF toLowerCase(candidate) = toLowerCase(currentTopic)
                THEN \E i \in 1..Len(UNIQUE_WORDS) : currentTopic' = UNIQUE_WORDS[i]
                ELSE currentTopic' = candidate ]_vars

\* An operation that ends the loading state is in progress: a getRandomWord
\* request is pending, or the stream of the effect run in force is open.
FetchInProgress ==
  \/ \E rid \in 1..Len(randoms) : randoms[rid].state = "pending"
  \/ \E id \in 1..Len(fetches) : ~fetches[id].isCancelled /\ fetches[id].stream = "open"

\* C14: the UI is never in the loading state (search input and Random
\* button disabled) with no fetch operation in progress, so that after a
\* Random click whose request settles and whose stream terminates isLoading
\* becomes false again.
C14_LoadingEnds == isLoading => FetchInProgress

\* C15: when the stream of the effect run in force terminates (it ends,
\* yields an "Error:" fragment or throws), isLoading becomes false, with
\* either error set and content empty, or error null and content the
\* concatenation of all fragments of that stream.
C15_StreamTermination ==
  [][ \A id \in 1..Len(fetches) :
        (~fetches[id].isCancelled /\ fetches[id].stream = "open"
           /\ fetches'[id].stream \in {"ended", "failed"})
          => /\ isLoading' = FALSE
             /\ \/ error' # Null /\ content' = <<>>
                \/ error' = Null /\ content' = Flatten(fetches'[id].chunks) ]_vars

\* C15 witness: a stream of more than one fragment has ended and all of it
\* is on display.
C15_Witness ==
  \E id \in 1..Len(fetches) :
    /\ ~fetches[id].isCancelled /\ fetches[id].stream = "ended"
    /\ Len(fetches[id].chunks) > 1
    /\ ~isLoading /\ error = Null
    /\ content = Flatten(fetches[id].chunks)

\* C16: content is the concatenation of a prefix of the fragments of the
\* stream started for the current topic, never a fragment of the stream of
\* an earlier topic.
C16_ContentOfCurrentStream ==
  \/ content = <<>>
  \/ \E id \in 1..Len(fetches) :
       /\ ~fetches[id].isCancelled
       /\ fetches[id].currentTopic = currentTopic
       /\ \E n \in 0..Len(fetches[id].chunks) :
            content = Flatten(SubSeq(fetches[id].chunks, 1, n))

\* The text streamTranslation yields for a text and a language, in n fragments.
TranslationOf(text, language, n) ==
  Flatten([i \in 1..n |-> <<language>> \o text])

\* C17: whenever no translation is in progress and translatedContent is
\* non-empty, translatedLanguage is the language translatedContent was
\* produced in and translatedContent is a translation of the content on
\* display.
C17_TranslationConsistent ==
  (~isTranslating /\ translatedContent # Null /\ translatedContent[1] # <<>>)
    => /\ translatedLanguage # Null
       /\ \E n \in 1..MaxChunks :
            translatedContent[1] = TranslationOf(content, translatedLanguage[1], n)

\* The argument is empty after trimming or names the current topic.
NoNewTopic(s) == trim(s) = <<>> \/ toLowerCase(trim(s)) = toLowerCase(currentTopic)

\* C18: handleSearch and handleWordClick called with a string that is empty
\* after trimming, or equal to the current topic case-insensitively, change
\* nothing: not the topic, content, error, isLoading, asciiArt, history or
\* the translation state, and no fetch operation is started.
C18_NoNewTopicNoChange ==
  [][ \A s \in CallArguments :
        (NoNewTopic(s) /\ (SearchCall(s) \/ WordCall(s)))
          => UNCHANGED <<currentTopic, content, error, isLoading, asciiArt, history,
                         translationState, fetches>> ]_vars

\* C18 witness: handleSearch or handleWordClick has just been called and
\* the only fetch operation ever started is the one of the mount, its
\* stream under way.
C18_Witness ==
  /\ event \in {"handleSearch", "handleWordClick"}
  /\ currentTopic = Hypertext
  /\ Len(fetches) = 1 /\ fetches[1].stream = "open" /\ fetches[1].chunks # <<>>

\* C19: submitting the search form calls onSearch with the trimmed query
\* and clears the input only when the trimmed query is non-empty and
\* isLoading is false; otherwise it calls nothing and leaves the query as it
\* is.  A submit never cancels a fetch operation whose stream is still open.
C19_SubmitOnlyWhenIdle ==
  [][ event' \in {"handleSearch", "handleSubmit"} =>
        /\ IF trim(query) # <<>> /\ ~isLoading
           THEN /\ event' = "handleSearch"
                /\ query' = <<>>
                /\ currentTopic' = IF toLowerCase(trim(query)) = toLowerCase(currentTopic)
                                   THEN currentTopic
                                   ELSE trim(query)
           ELSE /\ event' = "handleSubmit"
                /\ UNCHANGED <<query, currentTopic, display, history, translationState,
                               targetLanguage, fetches, randoms, translations>>
        /\ \A id \in 1..Len(fetches) :
             (~fetches[id].isCancelled /\ fetches[id].stream = "open")
               => ~fetches'[id].isCancelled ]_vars

\* C19 witness: the form was submitted with a query typed earlier while
\* the page was loading, and the query is still in the input.
C19_Witness == event = "handleSubmit" /\ isLoading /\ trim(query) # <<>>

====
